---- MODULE Spec2Model ----
(***************************************************************************)
(* Leave-approval workflow of the LMS backend (src/src/index.ts).          *)
(*                                                                         *)
(* The stores (userRepo, leaveRepo) are the shared state.  A request       *)
(* handler is a process whose steps are the stretches of code between two  *)
(* awaited store calls: every awaited findOneBy / save / delete is one     *)
(* step, together with the synchronous code that follows it up to the next *)
(* await.  Spec lets the steps of different handlers interleave, as the    *)
(* event loop does; SpecAtomic runs one handler at a time to completion.   *)
(***************************************************************************)
EXTENDS Integers, Sequences, FiniteSets, TLC

\* ---------------------------------------------------------------- bounds
MaxUsers   == 1      \* users that may be registered
MaxLeaves  == 1      \* leave requests that may be created
NumProcs   == 2      \* leave-action / cancel handlers in flight at once
MaxTime    == 3      \* latest timestamp of a payload date, in time units
LowBalance == 1      \* the explicit counter value a /register payload may carry

\* ------------------------------------------------------ program constants
DayLen         == 2    \* time units per day: 1000 * 3600 * 24 ms, scaled
DefaultCasual  == 10
DefaultSick    == 5
DefaultEarned  == 15
NaN            == -1   \* Number NaN: the time of an Invalid Date, and what arithmetic on it gives

UserIds  == 1 .. MaxUsers
NoUser   == 0                      \* a well-formed ObjectId that names no stored user
LeaveIds == 1 .. MaxLeaves
PairLeaves  == MaxLeaves + 1       \* leave requests of the specification of two requests of one user
AllLeaveIds == 1 .. PairLeaves
Procs    == 1 .. NumProcs

Roles      == {"hr", "manager", "admin"}
Actions    == {"approved", "Rejected", "hold"}
Counters   == {"casual", "sick", "earned"}
\* payload (from, to): a start at midnight of day 0 and an end up to MaxTime, a
\* reversed range, and dates that do not parse
DateRanges ==
  {<<0, e>> : e \in 0 .. MaxTime} \cup {<<DayLen - 1, 0>>, <<NaN, 0>>, <<0, NaN>>}

\* /apply-leave payloads <<userId, type, <<from, to>>>>: every date range for a
\* lower-case type, a mixed-case and an unknown type on the longest range, and a
\* request whose userId names no stored user
ApplyPayloads ==
  {<<u, "casual", d>> : u \in UserIds, d \in DateRanges}
    \cup {<<u, t, <<0, MaxTime>>>> : u \in UserIds, t \in {"Sick", "annual"}}
    \cup {<<NoUser, "casual", <<0, 0>>>>}

\* the payloads the interleaved specification draws from
RaceRoles    == {"hr", "manager"}
RaceActions  == {"approved", "rejected"}
RacePayloads == {<<u, "casual", d>> : u \in UserIds, d \in {<<0, 0>>, <<0, MaxTime>>}}

\* String.prototype.toLowerCase on the strings the model uses
ToLower(s) ==
  CASE s = "Sick"     -> "sick"
    [] s = "Pending"  -> "pending"
    [] s = "Rejected" -> "rejected"
    [] OTHER          -> s

\* ------------------------------------------------------ number arithmetic
Abs(x)     == IF x < 0 THEN 0 - x ELSE x
NumSub(a, b) == IF a = NaN \/ b = NaN THEN NaN ELSE a - b
NumLess(a, b) == a # NaN /\ b # NaN /\ a < b
NumLeq(a, b)  == a # NaN /\ b # NaN /\ a <= b

\* Math.ceil(Math.abs(to - from) / (1000 * 3600 * 24)) + 1
InclusiveDays(from, to) ==
  IF from = NaN \/ to = NaN THEN NaN
  ELSE ((Abs(to - from) + DayLen - 1) \div DayLen) + 1

\* mutant of the policy: the threshold is off by one
RequiredApprovalsStrict(days) ==
  IF NumLess(days, 2) THEN <<"hr", "manager">> ELSE <<"manager">>

\* requiredApprovals stamped by /apply-leave
RequiredApprovalsFor(days) ==
  IF NumLeq(days, 2) THEN <<"hr", "manager">> ELSE <<"manager">>

Includes(seq, x) == \E i \in 1 .. Len(seq) : seq[i] = x
\* mutants of the filter: the role is not removed / every role is removed
WithoutRoleKeep(seq, role) == seq
WithoutRoleAll(seq, role) == <<>>

\* leave.requiredApprovals.filter((r) => r !== role)
WithoutRole(seq, role) == SelectSeq(seq, LAMBDA r : r # role)
SetOf(seq) == {seq[i] : i \in 1 .. Len(seq)}

\* ------------------------------------------------------------------ state
VARIABLES
  users,     \* userRepo: stored user id -> leaveBalance
  leaves,    \* leaveRepo: stored leave id -> leave record
  nextLeave, \* the id the store assigns to the next inserted leave
  pc,        \* per handler: the await it is suspended at
  loc,       \* per handler: request payload and the entities it loaded
  resp,      \* the response returned last
  debits,    \* per leave id: how many times userRepo.save debited for it
  accepted,  \* per leave id: roles whose "approved" call returned 200
  orig       \* per leave id: requiredApprovals stamped at creation

vars == <<users, leaves, nextLeave, pc, loc, resp, debits, accepted, orig>>

NoLeave == [userId |-> NoUser, type |-> "", from |-> 0, to |-> 0,
            status |-> "", requiredApprovals |-> <<>>]
NoBalance == [casual |-> 0, sick |-> 0, earned |-> 0]
IdleLoc == [leaveId |-> 0, action |-> "", role |-> "",
            leave |-> NoLeave, user |-> NoBalance]
NoResp == [op |-> "", leaveId |-> 0, code |-> ""]

Response(op, leaveId, code) == [op |-> op, leaveId |-> leaveId, code |-> code]

Init ==
  /\ users = <<>>
  /\ leaves = <<>>
  /\ nextLeave = 1
  /\ pc = [p \in Procs |-> "idle"]
  /\ loc = [p \in Procs |-> IdleLoc]
  /\ resp = NoResp
  /\ debits = [l \in AllLeaveIds |-> 0]
  /\ accepted = [l \in AllLeaveIds |-> {}]
  /\ orig = [l \in AllLeaveIds |-> <<>>]

\* repository.save of an entity with an _id / of a new entity; repository.delete
Upsert(store, id, rec) == [k \in (DOMAIN store) \cup {id} |-> IF k = id THEN rec ELSE store[k]]
Remove(store, id) == [k \in (DOMAIN store) \ {id} |-> store[k]]

Respond(p, code) ==
  /\ resp' = Response("leave-action", loc[p].leaveId, code)
  /\ pc' = [pc EXCEPT ![p] = "idle"]
  /\ loc' = [loc EXCEPT ![p] = IdleLoc]

\* ------------------------------------------------------------- /register
\* leaveBalance?.casual ?? 10 and its siblings
PayloadBalances == { [c \in {} |-> 0], [casual |-> LowBalance] }

OrDefault(lb, field, default) == IF field \in DOMAIN lb THEN lb[field] ELSE default

DefaultLeaveBalance(lb) ==
  [casual |-> OrDefault(lb, "casual", DefaultCasual),
   sick   |-> OrDefault(lb, "sick", DefaultSick),
   earned |-> OrDefault(lb, "earned", DefaultEarned)]

Register(lb) ==
  /\ Cardinality(DOMAIN users) < MaxUsers
  /\ users' = Upsert(users, Cardinality(DOMAIN users) + 1, DefaultLeaveBalance(lb))
  /\ UNCHANGED <<leaves, nextLeave, pc, loc, resp, debits, accepted, orig>>

\* ---------------------------------------------------------- /apply-leave
NewLeave(userId, type, from, to) ==
  [userId |-> userId, type |-> type, from |-> from, to |-> to,
   status |-> "Pending",
   requiredApprovals |-> RequiredApprovalsFor(InclusiveDays(from, to))]

\* the handler, for a store that takes up to `limit` leave requests
ApplyLeaveWithin(limit, userId, type, from, to) ==
  /\ nextLeave <= limit
  /\ leaves' = Upsert(leaves, nextLeave, NewLeave(userId, type, from, to))
  /\ orig' = [orig EXCEPT ![nextLeave] = NewLeave(userId, type, from, to).requiredApprovals]
  /\ nextLeave' = nextLeave + 1
  /\ resp' = Response("apply-leave", nextLeave, "Created")
  /\ UNCHANGED <<users, pc, loc, debits, accepted>>

\* mutant of the handler: the days are reserved from the casual counter on creation
ApplyLeaveReserve(userId, type, from, to) ==
  /\ nextLeave <= MaxLeaves
  /\ leaves' = Upsert(leaves, nextLeave, NewLeave(userId, type, from, to))
  /\ orig' = [orig EXCEPT ![nextLeave] = NewLeave(userId, type, from, to).requiredApprovals]
  /\ nextLeave' = nextLeave + 1
  /\ resp' = Response("apply-leave", nextLeave, "Created")
  /\ users' = [u \in DOMAIN users |->
                 IF u = userId
                 THEN [users[u] EXCEPT !.casual = NumSub(@, InclusiveDays(from, to))]
                 ELSE users[u]]
  /\ UNCHANGED <<pc, loc, debits, accepted>>

ApplyLeave(userId, type, from, to) == ApplyLeaveWithin(MaxLeaves, userId, type, from, to)

\* ---------------------------------------------------- /admin/leave-action
\* mutants of the authorization check: no check / admin stands in for any role
AuthorizedAlways(leave, role) == TRUE
AuthorizedOrAdmin(leave, role) == Includes(leave.requiredApprovals, role) \/ role = "admin"

\* leave.requiredApprovals && leave.requiredApprovals.includes(role)
Authorized(leave, role) == Includes(leave.requiredApprovals, role)

\* mutant of the balance validation: the amount is not compared
BalanceInsufficientNoAmount(balance, leaveType, days) == leaveType \notin Counters

\* user.leaveBalance[leaveType] === undefined || user.leaveBalance[leaveType] < days
BalanceInsufficient(balance, leaveType, days) ==
  \/ leaveType \notin Counters
  \/ NumLess(balance[leaveType], days)

\* mutant of the deduction: the casual counter is debited whatever the type
DeductCasual(balance, leaveType, days) ==
  [balance EXCEPT !.casual = NumSub(@, days)]

\* user.leaveBalance[leaveType] -= days
Deduct(balance, leaveType, days) ==
  [balance EXCEPT ![leaveType] = NumSub(@, days)]

\* mutant of the rejection: requiredApprovals is not cleared
RejectedKeepApprovals(leave) == [leave EXCEPT !.status = "rejected"]

\* leave.status = "rejected"; leave.requiredApprovals = []
RejectedLeave(leave) ==
  [leave EXCEPT !.status = "rejected", !.requiredApprovals = <<>>]

\* await leaveRepo.findOneBy({_id}); 404 when it is missing
FindLeave(p, leaveId, action, role) ==
  /\ pc[p] = "idle"
  /\ IF leaveId \notin DOMAIN leaves
     THEN /\ resp' = Response("leave-action", leaveId, "NotFound")
          /\ UNCHANGED <<pc, loc>>
     ELSE /\ pc' = [pc EXCEPT ![p] = "findUser"]
          /\ loc' = [loc EXCEPT ![p] = [leaveId |-> leaveId, action |-> action,
                                        role |-> role, leave |-> leaves[leaveId],
                                        user |-> NoBalance]]
          /\ UNCHANGED resp
  /\ UNCHANGED <<users, leaves, nextLeave, debits, accepted, orig>>

\* await userRepo.findOneBy({_id: leave.userId}), then the synchronous code up to
\* the next await: the authorization check, the removal of the role, the balance
\* validation and the local deduction
FindUser(p) ==
  /\ pc[p] = "findUser"
  /\ LET leave  == loc[p].leave
         role   == loc[p].role
         action == loc[p].action
     IN
     IF leave.userId \notin DOMAIN users THEN Respond(p, "NotFound")
     ELSE IF ~Authorized(leave, role) THEN Respond(p, "Unauthorized")
     ELSE IF ToLower(action) = "approved" THEN
       LET remaining == WithoutRole(leave.requiredApprovals, role)
           days      == InclusiveDays(leave.from, leave.to)
           leaveType == ToLower(leave.type)
           balance   == users[leave.userId]
       IN
       IF Len(remaining) = 0 THEN
         IF BalanceInsufficient(balance, leaveType, days)
         THEN Respond(p, "InsufficientBalance")
         ELSE /\ loc' = [loc EXCEPT ![p].leave.requiredApprovals = remaining,
                                    ![p].user = Deduct(balance, leaveType, days)]
              /\ pc' = [pc EXCEPT ![p] = "saveUser"]
              /\ UNCHANGED resp
       ELSE /\ loc' = [loc EXCEPT ![p].leave.requiredApprovals = remaining,
                                  ![p].leave.status = "pending"]
            /\ pc' = [pc EXCEPT ![p] = "saveLeave"]
            /\ UNCHANGED resp
     ELSE IF ToLower(action) = "rejected" THEN
       /\ loc' = [loc EXCEPT ![p].leave = RejectedLeave(leave)]
       /\ pc' = [pc EXCEPT ![p] = "saveLeave"]
       /\ UNCHANGED resp
     ELSE Respond(p, "InvalidAction")
  /\ UNCHANGED <<users, leaves, nextLeave, debits, accepted, orig>>

\* mutant of the debit step: the status is not set to approved
SaveUserNoStatus(p) ==
  /\ pc[p] = "saveUser"
  /\ users' = Upsert(users, loc[p].leave.userId, loc[p].user)
  /\ debits' = [debits EXCEPT ![loc[p].leaveId] = @ + 1]
  /\ pc' = [pc EXCEPT ![p] = "saveLeave"]
  /\ UNCHANGED <<leaves, nextLeave, loc, resp, accepted, orig>>

\* await userRepo.save(user); leave.status = "approved"
SaveUser(p) ==
  /\ pc[p] = "saveUser"
  /\ users' = Upsert(users, loc[p].leave.userId, loc[p].user)
  /\ debits' = [debits EXCEPT ![loc[p].leaveId] = @ + 1]
  /\ loc' = [loc EXCEPT ![p].leave.status = "approved"]
  /\ pc' = [pc EXCEPT ![p] = "saveLeave"]
  /\ UNCHANGED <<leaves, nextLeave, resp, accepted, orig>>

\* await leaveRepo.save(leave); 200
SaveLeave(p) ==
  /\ pc[p] = "saveLeave"
  /\ leaves' = Upsert(leaves, loc[p].leaveId, loc[p].leave)
  /\ accepted' = IF ToLower(loc[p].action) = "approved"
                 THEN [accepted EXCEPT ![loc[p].leaveId] = @ \cup {loc[p].role}]
                 ELSE accepted
  /\ Respond(p, "OK")
  /\ UNCHANGED <<users, nextLeave, debits, orig>>

\* ------------------------------------------------------ DELETE /leave/{id}
\* mutant of the cancel guard: any stored request may be cancelled
CancelAllowedAny(leave) == TRUE

\* leave.status.toLowerCase() === "pending"
CancelAllowed(leave) == ToLower(leave.status) = "pending"

\* await leaveRepo.findOneBy({_id}); 404 when missing, 400 unless pending
CancelFind(p, leaveId) ==
  /\ pc[p] = "idle"
  /\ IF leaveId \notin DOMAIN leaves
     THEN /\ resp' = Response("cancel", leaveId, "NotFound")
          /\ UNCHANGED <<pc, loc>>
     ELSE IF ~CancelAllowed(leaves[leaveId])
     THEN /\ resp' = Response("cancel", leaveId, "InvalidState")
          /\ UNCHANGED <<pc, loc>>
     ELSE /\ pc' = [pc EXCEPT ![p] = "delete"]
          /\ loc' = [loc EXCEPT ![p] = [IdleLoc EXCEPT !.leaveId = leaveId,
                                                       !.leave = leaves[leaveId]]]
          /\ UNCHANGED resp
  /\ UNCHANGED <<users, leaves, nextLeave, debits, accepted, orig>>

\* await leaveRepo.delete({_id}); 200
CancelDelete(p) ==
  /\ pc[p] = "delete"
  /\ leaves' = Remove(leaves, loc[p].leaveId)
  /\ resp' = Response("cancel", loc[p].leaveId, "OK")
  /\ pc' = [pc EXCEPT ![p] = "idle"]
  /\ loc' = [loc EXCEPT ![p] = IdleLoc]
  /\ UNCHANGED <<users, nextLeave, debits, accepted, orig>>

\* --------------------------------------------------------- specifications
Quiet == \A q \in Procs : pc[q] = "idle"

\* the handlers as the event loop runs them: their steps interleave
Next ==
  \/ \E lb \in PayloadBalances : Register(lb)
  \/ \E a \in RacePayloads : ApplyLeave(a[1], a[2], a[3][1], a[3][2])
  \/ \E p \in Procs, l \in LeaveIds, a \in RaceActions, r \in RaceRoles :
       FindLeave(p, l, a, r)
  \/ \E p \in Procs : FindUser(p)
  \/ \E p \in Procs : SaveUser(p)
  \/ \E p \in Procs : SaveLeave(p)
  \/ \E p \in Procs, l \in LeaveIds : CancelFind(p, l)
  \/ \E p \in Procs : CancelDelete(p)

Spec == Init /\ [][Next]_vars

\* one handler at a time: a request is taken up only when no handler is suspended
SerialProcs == {NumProcs}

NextAtomic ==
  \/ Quiet /\ \E lb \in PayloadBalances : Register(lb)
  \/ Quiet /\ \E a \in ApplyPayloads : ApplyLeave(a[1], a[2], a[3][1], a[3][2])
  \/ Quiet /\ \E p \in SerialProcs, l \in LeaveIds, a \in Actions, r \in Roles :
       FindLeave(p, l, a, r)
  \/ \E p \in SerialProcs : FindUser(p)
  \/ \E p \in SerialProcs : SaveUser(p)
  \/ \E p \in SerialProcs : SaveLeave(p)
  \/ Quiet /\ \E p \in SerialProcs, l \in LeaveIds : CancelFind(p, l)
  \/ \E p \in SerialProcs : CancelDelete(p)

SpecAtomic == Init /\ [][NextAtomic]_vars

\* interleaved manager approvals of up to PairLeaves long casual requests of users
\* registered with the default balance
NextPair ==
  \/ Register([c \in {} |-> 0])
  \/ \E u \in UserIds : ApplyLeaveWithin(PairLeaves, u, "casual", 0, MaxTime)
  \/ \E p \in Procs, l \in AllLeaveIds : FindLeave(p, l, "approved", "manager")
  \/ \E p \in Procs : FindUser(p)
  \/ \E p \in Procs : SaveUser(p)
  \/ \E p \in Procs : SaveLeave(p)

SpecPair == Init /\ [][NextPair]_vars

\* ------------------------------------------------------------- properties
Stored(l)   == l \in DOMAIN leaves
StatusOf(l) == ToLower(leaves[l].status)
Terminal(l) == Stored(l) /\ StatusOf(l) \in {"approved", "rejected"}
IsApprove(a) == ToLower(a) = "approved"
IsReject(a)  == ToLower(a) = "rejected"
OwnerStored(l) == leaves[l].userId \in DOMAIN users

TypeOK ==
  /\ \A u \in DOMAIN users : \A c \in Counters : users[u][c] = NaN \/ users[u][c] >= 0
  /\ \A l \in DOMAIN leaves : StatusOf(l) \in {"pending", "approved", "rejected"}
  /\ \A p \in Procs : pc[p] \in {"idle", "findUser", "saveUser", "saveLeave", "delete"}

\* C1: with handlers run one at a time, the balance is debited at most once for a
\* leave request, and an "approved" call by a role whose approval of that request
\* was already accepted is answered Unauthorized and writes nothing.
C1_DebitAtMostOnce ==
  /\ [](\A l \in LeaveIds : debits[l] <= 1)
  /\ [][\A p \in Procs :
          (pc[p] = "findUser" /\ IsApprove(loc[p].action)
             /\ loc[p].role \in accepted[loc[p].leaveId])
          => /\ resp' = Response("leave-action", loc[p].leaveId, "Unauthorized")
             /\ pc'[p] = "idle"
             /\ UNCHANGED <<users, leaves, debits>>]_vars

C1_Witness ==
  \E l \in LeaveIds :
    /\ Terminal(l) /\ StatusOf(l) = "approved" /\ debits[l] = 1
    /\ resp = Response("leave-action", l, "Unauthorized")

\* C2: two concurrent "approved" handlers of one leave request never both find
\* requiredApprovals empty after removing their role and both save a debited user.
C2_NoDoubleDebit ==
  \A p, q \in Procs :
    (p # q /\ loc[p].leaveId = loc[q].leaveId)
    => ~ /\ pc[p] = "saveLeave" /\ loc[p].leave.status = "approved"
         /\ pc[q] = "saveLeave" /\ loc[q].leave.status = "approved"

\* C3: a stored request is approved only if every role stamped at its creation
\* made an accepted "approved" call (a request of at most 2 days needs both hr and
\* manager); after exactly one of two required roles approved, an unrejected
\* request is still pending and requires exactly the other role.
C3_ApprovedOnlyByAll ==
  \A l \in DOMAIN leaves :
    /\ StatusOf(l) = "approved" => SetOf(orig[l]) \subseteq accepted[l]
    /\ (StatusOf(l) = "approved" /\ NumLeq(InclusiveDays(leaves[l].from, leaves[l].to), 2))
         => {"hr", "manager"} \subseteq accepted[l]
    /\ (Len(orig[l]) = 2 /\ Cardinality(accepted[l]) = 1 /\ StatusOf(l) # "rejected")
         => /\ leaves[l].status = "pending"
            /\ SetOf(leaves[l].requiredApprovals) = SetOf(orig[l]) \ accepted[l]
            /\ Len(leaves[l].requiredApprovals) = 1

C3_Witness ==
  \E l \in DOMAIN leaves :
    StatusOf(l) = "approved" /\ accepted[l] = {"hr", "manager"} /\ debits[l] = 1

\* The step of a leave-action handler that follows its two loads, for role-less
\* members of the stored requiredApprovals
UnauthorizedCall(p) ==
  /\ pc[p] = "findUser"
  /\ IsApprove(loc[p].action) \/ IsReject(loc[p].action)
  /\ Stored(loc[p].leaveId)
  /\ ~Includes(leaves[loc[p].leaveId].requiredApprovals, loc[p].role)

ShortBalanceCall(p) ==
  LET l == loc[p].leaveId IN
  /\ pc[p] = "findUser"
  /\ IsApprove(loc[p].action)
  /\ Stored(l) /\ OwnerStored(l)
  /\ leaves[l].requiredApprovals = <<loc[p].role>>
  /\ ToLower(leaves[l].type) \in Counters
  /\ NumLess(users[leaves[l].userId][ToLower(leaves[l].type)],
             InclusiveDays(leaves[l].from, leaves[l].to))

\* C5: a final approval that the balance cannot cover fails with
\* InsufficientBalance and writes nothing: the stored request is still pending with
\* the acting role in requiredApprovals (so the role can retry), the balance is
\* unchanged.
C5_InsufficientNotHalfApplied ==
  [][\A p \in Procs :
       ShortBalanceCall(p)
       => /\ resp' = Response("leave-action", loc[p].leaveId, "InsufficientBalance")
          /\ pc'[p] = "idle"
          /\ UNCHANGED <<users, leaves, debits, accepted>>
          /\ ToLower(leaves'[loc[p].leaveId].status) = "pending"
          /\ Authorized(leaves'[loc[p].leaveId], loc[p].role)]_vars

C5_Witness ==
  \E l \in DOMAIN leaves :
    /\ resp = Response("leave-action", l, "InsufficientBalance")
    /\ StatusOf(l) = "pending"
    /\ leaves[l].requiredApprovals = <<"manager">>
    /\ OwnerStored(l)
    /\ ToLower(leaves[l].type) \in Counters
    /\ NumLess(users[leaves[l].userId][ToLower(leaves[l].type)],
               InclusiveDays(leaves[l].from, leaves[l].to))
    /\ debits[l] = 0

\* The step of a "rejected" handler, after its two loads, of a role that is in the
\* stored requiredApprovals
RejectCall(p) ==
  /\ pc[p] = "findUser"
  /\ IsReject(loc[p].action)
  /\ Stored(loc[p].leaveId)
  /\ Includes(leaves[loc[p].leaveId].requiredApprovals, loc[p].role)

\* the save of a reject call stores status rejected and no required approvals,
\* answers 200 and changes no balance
RejectSaves(p) ==
  (pc[p] = "saveLeave" /\ IsReject(loc[p].action))
  => /\ loc[p].leaveId \in DOMAIN leaves'
     /\ leaves'[loc[p].leaveId].status = "rejected"
     /\ leaves'[loc[p].leaveId].requiredApprovals = <<>>
     /\ resp' = Response("leave-action", loc[p].leaveId, "OK")
     /\ UNCHANGED <<users, debits>>

C7_TerminalIsFinal ==
  [][\A l \in LeaveIds :
       Terminal(l)
       => /\ l \in DOMAIN leaves' /\ leaves'[l] = leaves[l]
          /\ debits'[l] = debits[l]
          /\ \A p \in Procs :
               /\ (pc[p] = "findUser" /\ loc[p].leaveId = l)
                    => /\ resp' = Response("leave-action", l, "Unauthorized")
                       /\ pc'[p] = "idle"
                       /\ users' = users
               /\ ~(pc'[p] = "delete" /\ loc'[p].leaveId = l)
          /\ (resp' # resp /\ resp'.op = "cancel" /\ resp'.leaveId = l)
               => (resp'.code = "InvalidState" /\ users' = users)]_vars

C7_Witness ==
  \E l \in LeaveIds :
    /\ Terminal(l)
    /\ resp = Response("cancel", l, "InvalidState")
    /\ accepted[l] # {}

\* C8: interleaved operations on one leave request behave as some serial order of
\* them: a stored approved or rejected status is never overwritten by another
\* status, and a request is never stored rejected with its days debited.
C8_Serializable ==
  [][\A l \in LeaveIds :
       (Terminal(l) /\ l \in DOMAIN leaves')
       => /\ ToLower(leaves'[l].status) = StatusOf(l)
          /\ ~(ToLower(leaves'[l].status) = "rejected" /\ debits'[l] > 0)]_vars

\* C9: a stored pending request has a non-empty requiredApprovals; a stored
\* approved or rejected request has an empty one.
C9_StatusMatchesApprovals ==
  \A l \in DOMAIN leaves :
    /\ StatusOf(l) \in {"pending", "approved", "rejected"}
    /\ StatusOf(l) = "pending" => Len(leaves[l].requiredApprovals) > 0
    /\ StatusOf(l) \in {"approved", "rejected"} => Len(leaves[l].requiredApprovals) = 0

C9_Witness ==
  \E l \in DOMAIN leaves :
    /\ leaves[l].status = "approved"
    /\ leaves[l].requiredApprovals = <<>>
    /\ Len(orig[l]) = 2

Created == 1 .. (nextLeave - 1)
DaysOf(l) == InclusiveDays(leaves[l].from, leaves[l].to)

RECURSIVE SumDays(_)
SumDays(ls) ==
  IF ls = {} THEN 0
  ELSE LET l == CHOOSE x \in ls : TRUE IN DaysOf(l) + SumDays(ls \ {l})

\* C11: when two requests of one user are both stored approved, each debited
\* once by its own final approval, the user's counter has dropped from the default
\* by the sum of their day counts, however the two handlers interleaved.
C11_BothDebitsCount ==
  \A u \in DOMAIN users :
    LET appr == {l \in DOMAIN leaves : leaves[l].userId = u /\ StatusOf(l) = "approved"} IN
    (Cardinality(appr) = 2 /\ \A l \in Created : debits[l] = IF l \in appr THEN 1 ELSE 0)
    => users[u].casual = DefaultCasual - SumDays(appr)

C13_DebitNamedCounter ==
  [][\A p \in Procs :
       /\ pc[p] = "saveUser"
            => LET l == loc[p].leaveId
                   u == leaves[l].userId
                   lt == ToLower(leaves[l].type)
               IN /\ lt \in Counters
                  /\ users'[u][lt] = NumSub(users[u][lt], DaysOf(l))
                  /\ \A c \in Counters \ {lt} : users'[u][c] = users[u][c]
                  /\ \A v \in DOMAIN users \ {u} : users'[v] = users[v]
                  /\ pc'[p] = "saveLeave"
       /\ (pc[p] = "saveLeave" /\ IsApprove(loc[p].action)
             /\ loc[p].leave.requiredApprovals = <<>>)
            => /\ leaves'[loc[p].leaveId].status = "approved"
               /\ resp' = Response("leave-action", loc[p].leaveId, "OK")]_vars

C13_Witness ==
  \E l \in DOMAIN leaves :
    /\ leaves[l].status = "approved"
    /\ leaves[l].type = "Sick"
    /\ OwnerStored(l)
    /\ users[leaves[l].userId].sick = DefaultSick - DaysOf(l)
    /\ users[leaves[l].userId].earned = DefaultEarned
    /\ debits[l] = 1
    /\ resp = Response("leave-action", l, "OK")

\* C14: a stored user's counters change only in the userRepo.save of an
\* "approved" call that emptied requiredApprovals; any step that answers anything
\* but the 200 of a leave-action leaves every counter as it was.
C14_OnlyFinalApprovalDebits ==
  [][/\ \A u \in DOMAIN users :
          (u \notin DOMAIN users' \/ users'[u] # users[u])
          => \E p \in Procs :
               /\ pc[p] = "saveUser" /\ pc'[p] = "saveLeave"
               /\ IsApprove(loc[p].action)
               /\ loc[p].leave.userId = u
               /\ loc[p].leave.requiredApprovals = <<>>
               /\ leaves[loc[p].leaveId].requiredApprovals = <<loc[p].role>>
     /\ (resp' # resp) => UNCHANGED <<users, debits>>]_vars

C14_Witness ==
  \E l \in DOMAIN leaves :
    /\ leaves[l].status = "pending"
    /\ accepted[l] = {"manager"}
    /\ resp = Response("leave-action", l, "InsufficientBalance")
    /\ OwnerStored(l)
    /\ users[leaves[l].userId] = DefaultLeaveBalance([casual |-> LowBalance])

\* C15: every counter of every stored user is a non-negative number.
C15_NonNegativeCounters ==
  \A u \in DOMAIN users : \A c \in Counters : users[u][c] # NaN /\ users[u][c] >= 0

\* C16: no request whose start or end date does not parse is ever stored.
C16_InvalidDatesRejected ==
  \A l \in DOMAIN leaves : leaves[l].from # NaN /\ leaves[l].to # NaN

\* calendar day of a timestamp, and the inclusive count of calendar days
DayOf(t) == t \div DayLen
CalendarDays(from, to) == Abs(DayOf(to) - DayOf(from)) + 1

\* C17: the day count of every stored request whose dates parse is the difference
\* of the calendar days of its start and end, plus one, whatever their time of day.
C17_CalendarDayCount ==
  \A l \in DOMAIN leaves :
    (leaves[l].from # NaN /\ leaves[l].to # NaN)
    => DaysOf(l) = CalendarDays(leaves[l].from, leaves[l].to)

\* C18: a final approval of a request whose type names no counter is answered
\* UnknownLeaveType and changes neither store.
C18_UnknownLeaveType ==
  [][\A p \in Procs :
       (/\ pc[p] = "findUser" /\ IsApprove(loc[p].action)
        /\ Stored(loc[p].leaveId) /\ OwnerStored(loc[p].leaveId)
        /\ leaves[loc[p].leaveId].requiredApprovals = <<loc[p].role>>
        /\ ToLower(leaves[loc[p].leaveId].type) \notin Counters)
       => /\ resp' = Response("leave-action", loc[p].leaveId, "UnknownLeaveType")
          /\ UNCHANGED <<users, leaves>>]_vars

\* C19: a stored pending request never still requires a role whose "approved"
\* call on it was answered 200.
C19_AcceptedApprovalKept ==
  \A l \in DOMAIN leaves :
    StatusOf(l) = "pending" => SetOf(leaves[l].requiredApprovals) \cap accepted[l] = {}

\* C20: a request that was created and is no longer stored (cancel removed it)
\* is never stored again, and nothing is debited for it afterwards.
C20_CancelledStaysAbsent ==
  [][\A l \in Created :
       ~Stored(l) => (l \notin DOMAIN leaves' /\ debits'[l] = debits[l])]_vars

====
